---- MODULE Spec2Model ----
(***************************************************************************)
(* A model of the key-value server of src/redis-server/server.go: the     *)
(* RESP frame decoder and command dispatcher (handleRequest), the         *)
(* expiring Store behind its RWMutex (Store.Set, Store.Get, getAllKeys,   *)
(* Store.deleteKey), the detached removal goroutines, and the startup     *)
(* load of the snapshot in main.                                          *)
(*                                                                         *)
(* Bytes on the wire are one-character strings, a byte string is a        *)
(* sequence of them.  The clock counts ticks; one millisecond is          *)
(* TicksPerMs ticks, so that the truncation of a duration to whole        *)
(* milliseconds is visible.                                               *)
(***************************************************************************)
EXTENDS Integers, Sequences, FiniteSets, TLC

(***************************************************************************)
(* Bounds of the model.                                                   *)
(***************************************************************************)
\* the clock stops at MaxTime ticks
MaxTime == 4
\* clock ticks per millisecond
TicksPerMs == 2
\* width in bits of a time.Duration, scaled down from 64
DurBits == 6
\* removal goroutines spawned and not yet run, per key
MaxDel == 1
\* frames of zero elements a connection may send
MaxSilent == 1

(***************************************************************************)
(* Byte strings.                                                          *)
(***************************************************************************)
CR == "\r"
LF == "\n"
CRLF == <<CR, LF>>

DigitVal ==
  [c \in {"0", "1", "2", "3", "4", "5", "6", "7", "8", "9"} |->
     CASE c = "0" -> 0 [] c = "1" -> 1 [] c = "2" -> 2 [] c = "3" -> 3
       [] c = "4" -> 4 [] c = "5" -> 5 [] c = "6" -> 6 [] c = "7" -> 7
       [] c = "8" -> 8 [] c = "9" -> 9]

UpperMap ==
  [c \in {"a", "b", "c", "d", "e", "f", "g", "h", "i", "j", "k", "l", "m",
          "n", "o", "p", "q", "r", "s", "t", "u", "v", "w", "x", "y", "z"} |->
     CASE c = "a" -> "A" [] c = "b" -> "B" [] c = "c" -> "C" [] c = "d" -> "D"
       [] c = "e" -> "E" [] c = "f" -> "F" [] c = "g" -> "G" [] c = "h" -> "H"
       [] c = "i" -> "I" [] c = "j" -> "J" [] c = "k" -> "K" [] c = "l" -> "L"
       [] c = "m" -> "M" [] c = "n" -> "N" [] c = "o" -> "O" [] c = "p" -> "P"
       [] c = "q" -> "Q" [] c = "r" -> "R" [] c = "s" -> "S" [] c = "t" -> "T"
       [] c = "u" -> "U" [] c = "v" -> "V" [] c = "w" -> "W" [] c = "x" -> "X"
       [] c = "y" -> "Y" [] c = "z" -> "Z"]

LowerMap ==
  [c \in {"A", "B", "C", "D", "E", "F", "G", "H", "I", "J", "K", "L", "M",
          "N", "O", "P", "Q", "R", "S", "T", "U", "V", "W", "X", "Y", "Z"} |->
     CHOOSE l \in DOMAIN UpperMap : UpperMap[l] = c]

\* strings.ToUpper
ToUpper(s) ==
  [i \in DOMAIN s |-> IF s[i] \in DOMAIN UpperMap THEN UpperMap[s[i]] ELSE s[i]]

\* a string left in the case it has
KeepCase(s) == s

\* strings.ToLower
ToLower(s) ==
  [i \in DOMAIN s |-> IF s[i] \in DOMAIN LowerMap THEN LowerMap[s[i]] ELSE s[i]]

\* strings.HasPrefix(s, p) for a one-byte p
HasPrefix(s, p) == Len(s) >= 1 /\ s[1] = p

\* strings.TrimSuffix(s, "\r\n")
TrimSuffix(s) ==
  IF Len(s) >= 2 /\ s[Len(s) - 1] = CR /\ s[Len(s)] = LF
  THEN SubSeq(s, 1, Len(s) - 2)
  ELSE s

RECURSIVE DecVal(_)
DecVal(s) ==
  IF s = <<>> THEN 0
  ELSE 10 * DecVal(SubSeq(s, 1, Len(s) - 1)) + DigitVal[s[Len(s)]]

\* the range of int and int64, in DurBits bits
InRange(x) == x >= 0 - 2 ^ (DurBits - 1) /\ x < 2 ^ (DurBits - 1)

\* strconv.Atoi and strconv.ParseInt(s, 10, 64): an optional sign, then one
\* or more decimal digits and nothing else, and a value in range
Atoi(s) ==
  LET signed == s # <<>> /\ s[1] \in {"+", "-"}
      body == IF signed THEN Tail(s) ELSE s
      bad == body = <<>> \/ \E i \in DOMAIN body : body[i] \notin DOMAIN DigitVal
      val == IF signed /\ s[1] = "-" THEN 0 - DecVal(body) ELSE DecVal(body)
  IN IF bad THEN [err |-> TRUE, val |-> 0]
     ELSE IF ~InRange(val) THEN [err |-> TRUE, val |-> 0]
     ELSE [err |-> FALSE, val |-> val]

\* bufio.Reader.ReadString('\n') on the bytes that arrive before the end of
\* the stream: the line with its delimiter, or an error when the stream ends
\* first
ReadString(buf) ==
  IF \E i \in DOMAIN buf : buf[i] = LF
  THEN LET i == CHOOSE j \in DOMAIN buf :
                  buf[j] = LF /\ \A h \in 1..(j - 1) : buf[h] # LF
       IN [err |-> FALSE, line |-> SubSeq(buf, 1, i),
           rest |-> SubSeq(buf, i + 1, Len(buf))]
  ELSE [err |-> TRUE, line |-> buf, rest |-> <<>>]

\* io.ReadFull(reader, make([]byte, n)) for n >= 0
ReadFull(buf, n) ==
  IF Len(buf) >= n
  THEN [err |-> FALSE, bytes |-> SubSeq(buf, 1, n),
        rest |-> SubSeq(buf, n + 1, Len(buf))]
  ELSE [err |-> TRUE, bytes |-> buf, rest |-> <<>>]

(***************************************************************************)
(* The frame decoder of handleRequest.  st is "ok" (elements decoded),    *)
(* "return" (the task returns: end of stream or a protocol error) or      *)
(* "panic" (a run-time panic, which ends the process).                    *)
(***************************************************************************)
Decoded(st, elements, rest) == [st |-> st, elements |-> elements, rest |-> rest]

RECURSIVE DecodeElements(_, _, _)
DecodeElements(buf, n, acc) ==
  IF n = 0 THEN Decoded("ok", acc, buf)
  ELSE
    LET l == ReadString(buf) IN
    IF l.err THEN Decoded("return", <<>>, <<>>)
    ELSE IF ~HasPrefix(l.line, "$") THEN Decoded("return", <<>>, <<>>)
    ELSE
      LET a == Atoi(TrimSuffix(Tail(l.line))) IN
      IF a.err THEN Decoded("return", <<>>, <<>>)
      \* make([]byte, length+2) with a negative size
      ELSE IF a.val + 2 < 0 THEN Decoded("panic", <<>>, <<>>)
      ELSE
        LET f == ReadFull(l.rest, a.val + 2) IN
        IF f.err THEN Decoded("return", <<>>, <<>>)
        \* bulkData[:length] with a negative length
        ELSE IF a.val < 0 THEN Decoded("panic", <<>>, <<>>)
        ELSE DecodeElements(f.rest, n - 1, Append(acc, SubSeq(f.bytes, 1, a.val)))

DecodeFrame(buf) ==
  LET l == ReadString(buf) IN
  IF l.err THEN Decoded("return", <<>>, <<>>)
  ELSE IF ~HasPrefix(l.line, "*") THEN Decoded("return", <<>>, <<>>)
  ELSE
    LET a == Atoi(TrimSuffix(Tail(l.line))) IN
    IF a.err THEN Decoded("return", <<>>, <<>>)
    \* make([]string, 0, arrayLen) with a negative capacity
    ELSE IF a.val < 0 THEN Decoded("panic", <<>>, <<>>)
    ELSE DecodeElements(l.rest, a.val, <<>>)

(***************************************************************************)
(* Replies.  n is the number printed in the header of a bulk string or of *)
(* an array.                                                              *)
(***************************************************************************)
NoReply == [kind |-> "none", msg |-> "", n |-> 0, items |-> <<>>]
SimpleReply(msg) == [kind |-> "simple", msg |-> msg, n |-> 0, items |-> <<>>]
\* an error written with the + of a status reply
ErrorAsStatus(msg) == [kind |-> "simple", msg |-> msg, n |-> 0, items |-> <<>>]
ErrorReply(msg) == [kind |-> "error", msg |-> msg, n |-> 0, items |-> <<>>]
NullReply == [kind |-> "null", msg |-> "", n |-> 0 - 1, items |-> <<>>]
BulkReply(s) == [kind |-> "bulk", msg |-> "", n |-> Len(s), items |-> <<s>>]
ArrayReply(items) == [kind |-> "array", msg |-> "", n |-> Len(items), items |-> items]

(***************************************************************************)
(* The Store: a map from key to StoreItem.                                *)
(***************************************************************************)
StoreItem(value, hasExpiry, expiresAt) ==
  [value |-> value, hasExpiry |-> hasExpiry, expiresAt |-> expiresAt]

\* a comparison that takes the boundary instant as after
AfterOrAt(t, u) == t >= u

\* time.Time.After
After(t, u) == t > u

\* the two's complement value of x in DurBits bits
WrapDuration(x) ==
  LET m == 2 ^ DurBits
      r == x % m
  IN IF r >= m \div 2 THEN r - m ELSE r

\* time.Duration(px) * time.Millisecond
MsToDuration(px) == WrapDuration(px * TicksPerMs)

\* an expiry test with the operands of After exchanged
IsExpiredSwapped(item, t) == item.hasExpiry /\ After(item.expiresAt, t)

\* time.Time.Sub: the difference, held to the range of a Duration
Sub(t, u) ==
  LET m == 2 ^ (DurBits - 1) IN
  IF t - u >= m THEN m - 1 ELSE IF t - u < 0 - m THEN 0 - m ELSE t - u

\* a count of milliseconds that rounds a part of a millisecond up
MillisecondsUp(d) ==
  IF d >= 0 THEN (d + TicksPerMs - 1) \div TicksPerMs ELSE 0 - ((0 - d) \div TicksPerMs)

\* time.Duration.Milliseconds: the whole milliseconds, rounded toward zero
Milliseconds(d) ==
  IF d >= 0 THEN d \div TicksPerMs ELSE 0 - ((0 - d) \div TicksPerMs)

\* time.Until(t) at time t0
Until(t, t0) == Sub(t, t0)

\* the expiry test of Store.Get and getAllKeys
IsExpired(item, t) == item.hasExpiry /\ After(t, item.expiresAt)

\* s.data[key] = item
MapPut(d, key, item) ==
  [k \in DOMAIN d \cup {key} |-> IF k = key THEN item ELSE d[k]]

\* delete(s.data, key)
MapDelete(d, key) == [k \in DOMAIN d \ {key} |-> d[k]]

\* the item Store.Set builds at time t
NewItem(value, px, t) ==
  StoreItem(value, px > 0, IF px > 0 THEN t + MsToDuration(px) ELSE 0)

\* the body of Store.Set at time t
StoreSet(d, key, value, px, t) == MapPut(d, key, NewItem(value, px, t))

\* the body of Store.Get at time t: the result and whether a removal is spawned
StoreGet(d, key, t) ==
  IF key \notin DOMAIN d THEN [value |-> <<>>, exists |-> FALSE, spawn |-> FALSE]
  ELSE IF IsExpired(d[key], t) THEN [value |-> <<>>, exists |-> FALSE, spawn |-> TRUE]
  ELSE [value |-> d[key].value, exists |-> TRUE, spawn |-> FALSE]

\* the keys getAllKeys appends at time t, and those it spawns a removal for
LiveKeysNoSkip(d, t) == DOMAIN d
LiveKeys(d, t) == {k \in DOMAIN d : ~IsExpired(d[k], t)}
DeadKeys(d, t) == {k \in DOMAIN d : IsExpired(d[k], t)}

\* the orders in which the range loop may visit a set of keys
Orders(S) ==
  {q \in [1..Cardinality(S) -> S] : \A i, j \in 1..Cardinality(S) : q[i] = q[j] => i = j}

(***************************************************************************)
(* The command dispatcher of handleRequest, for a frame of one or more    *)
(* elements.  act is "write" (the reply is known without the Store) or    *)
(* the Store operation to run; writes are the replies the branch writes;  *)
(* checked tells whether the branch reaches the test of the write's error *)
(* after the switch.                                                      *)
(***************************************************************************)
\* a branch that writes nothing
RespondNothing(reply, checked) ==
  [act |-> "write", writes |-> <<>>, checked |-> checked,
   key |-> <<>>, value |-> <<>>, px |-> 0]

Respond(reply, checked) ==
  [act |-> "write", writes |-> <<reply>>, checked |-> checked,
   key |-> <<>>, value |-> <<>>, px |-> 0]

StoreOp(act, key, value, px) ==
  [act |-> act, writes |-> <<>>, checked |-> TRUE,
   key |-> key, value |-> value, px |-> px]

handleConfigGet(param, cfg) ==
  LET p == ToLower(param)
      value == IF p = <<"d", "i", "r">> THEN cfg.dir
               ELSE IF p = <<"d", "b", "f", "i", "l", "e", "n", "a", "m", "e">>
               THEN cfg.dbfilename
               ELSE <<>>
  IN ArrayReply(<<param, value>>)

Dispatch(e, cfg) ==
  LET command == ToUpper(e[1]) IN
  IF command = <<"P", "I", "N", "G">> THEN Respond(SimpleReply("PONG"), TRUE)
  ELSE IF command = <<"E", "C", "H", "O">> THEN
    IF Len(e) < 2
    THEN Respond(ErrorReply("wrong number of arguments for 'echo' command"), FALSE)
    ELSE Respond(BulkReply(e[2]), TRUE)
  ELSE IF command = <<"S", "E", "T">> THEN
    IF Len(e) < 3
    THEN Respond(ErrorReply("wrong number of arguments for 'set' command"), FALSE)
    ELSE IF Len(e) > 3 /\ ToUpper(e[4]) = <<"P", "X">> THEN
      IF Len(e) < 5 THEN Respond(ErrorReply("syntax error"), FALSE)
      ELSE IF Atoi(e[5]).err
      THEN Respond(ErrorReply("invalid expire time in 'set' command"), FALSE)
      ELSE StoreOp("set", e[2], e[3], Atoi(e[5]).val)
    ELSE StoreOp("set", e[2], e[3], 0)
  ELSE IF command = <<"G", "E", "T">> THEN
    IF Len(e) # 2
    THEN Respond(ErrorReply("wrong number of arguments for 'get' command"), FALSE)
    ELSE StoreOp("get", e[2], <<>>, 0)
  ELSE IF command = <<"C", "O", "N", "F", "I", "G">> THEN
    IF Len(e) >= 3 /\ ToUpper(e[2]) = <<"G", "E", "T">>
    \* handleConfigGet logs a failed write and returns nothing
    THEN Respond(handleConfigGet(e[3], cfg), FALSE)
    ELSE Respond(ErrorReply("Wrong number of arguments"), TRUE)
  ELSE IF command = <<"K", "E", "Y", "S">> THEN
    IF Len(e) # 2
    THEN Respond(ErrorReply("wrong number of arguments for 'keys' command"), FALSE)
    ELSE IF e[2] # <<"*">> THEN Respond(ErrorReply("unsupported pattern"), FALSE)
    ELSE StoreOp("keys", <<>>, <<>>, 0)
  ELSE Respond(ErrorReply("unknown command"), TRUE)

(***************************************************************************)
(* The snapshot reader.  A file is a sequence of bytes, each a number in  *)
(* 0..255; pos is the offset of the next byte read.                       *)
(***************************************************************************)
RDBHeader == <<82, 69, 68, 73, 83, 48, 48, 49, 49>>
TypeString == 0
MetadataStart == 250
DatabaseStart == 254
ExpireTimeMs == 252
ExpireTime == 253
EOF == 255
ResizeDB == 251

\* the steps of the top-level loop after which the reader is taken not to end
MaxOpcodes == 6

\* string(b) for the bytes the files hold in keys and values
CharOf == (97 :> "a") @@ (98 :> "b") @@ (120 :> "x") @@ (121 :> "y")
BytesToString(bytes) == [i \in DOMAIN bytes |-> CharOf[bytes[i]]]

KeyValue(key, value, hasExpiry, expiresAt) ==
  [Key |-> key, Value |-> value, HasExpiry |-> hasExpiry, ExpiresAt |-> expiresAt]

\* io.ReadFull(file, make([]byte, n)) and binary.Read of n bytes, for n >= 0
ReadBytes(f, pos, n) ==
  IF pos + n <= Len(f)
  THEN [err |-> FALSE, bytes |-> SubSeq(f, pos + 1, pos + n), pos |-> pos + n]
  ELSE [err |-> TRUE, bytes |-> <<>>, pos |-> Len(f)]

\* the unsigned little-endian value of a byte sequence
RECURSIVE LittleEndian(_)
LittleEndian(bytes) ==
  IF bytes = <<>> THEN 0 ELSE Head(bytes) + 256 * LittleEndian(Tail(bytes))

\* the int32 of four little-endian bytes
Int32(bytes) ==
  LittleEndian(SubSeq(bytes, 1, 3))
    + 16777216 * (IF bytes[4] >= 128 THEN bytes[4] - 256 ELSE bytes[4])

\* time.Unix(sec, 0) and time.UnixMilli(ms), in ticks
UnixSeconds(sec) == sec * 1000 * TicksPerMs
UnixMilli(ms) == ms * TicksPerMs

\* Each step of the reader takes the result of the read before it as a
\* parameter.  A result of the record loop and of Read is [st, pairs, pos],
\* st being "ok", "err", "panic" or "hang".
ReadResult(st, pairs) == [st |-> st, pairs |-> pairs, pos |-> 0]

LengthRead(r) ==
  IF r.err THEN [err |-> TRUE, val |-> 0, pos |-> r.pos]
  ELSE [err |-> FALSE, val |-> Int32(r.bytes), pos |-> r.pos]

readLength(f, pos) == LengthRead(ReadBytes(f, pos, 4))

StringRead(r) ==
  IF r.err THEN [st |-> "err", str |-> <<>>, pos |-> r.pos]
  ELSE [st |-> "ok", str |-> BytesToString(r.bytes), pos |-> r.pos]

\* make([]byte, length) panics on a negative length
StringOfLength(f, l) ==
  IF l.err THEN [st |-> "err", str |-> <<>>, pos |-> l.pos]
  ELSE IF l.val < 0 THEN [st |-> "panic", str |-> <<>>, pos |-> l.pos]
  ELSE StringRead(ReadBytes(f, l.pos, l.val))

readString(f, pos) == StringOfLength(f, readLength(f, pos))

\* file.Seek(length, io.SeekCurrent) fails before the start of the file and
\* succeeds past its end
SeekOver(l) ==
  IF l.err THEN [err |-> TRUE, pos |-> l.pos]
  ELSE IF l.pos + l.val < 0 THEN [err |-> TRUE, pos |-> l.pos]
  ELSE [err |-> FALSE, pos |-> l.pos + l.val]

skipString(f, pos) == SeekOver(readLength(f, pos))

SkipValue(f, k) == IF k.err THEN k ELSE skipString(f, k.pos)

skipMetadata(f, pos) == SkipValue(f, skipString(f, pos))

\* file.Read(opcode): one byte, or an error at the end of the file
ReadOpcode(f, pos) ==
  IF pos < Len(f)
  THEN [err |-> FALSE, op |-> f[pos + 1], pos |-> pos + 1]
  ELSE [err |-> TRUE, op |-> 0, pos |-> pos]

\* a step inside a record: st, the pair so far, and the opcode last read with
\* the offset after it
InRecord(st, pair, pos, op) == [st |-> st, pair |-> pair, pos |-> pos, op |-> op]

NoPair == KeyValue(<<>>, <<>>, FALSE, 0)

\* an expiry that is read and not kept in the pair
ExpiryNotKept(next, expiresAt) ==
  IF next.err THEN InRecord("err", NoPair, 0, 0)
  ELSE InRecord("ok", NoPair, next.pos, next.op)

ExpiryOpcode(next, expiresAt) ==
  IF next.err THEN InRecord("err", NoPair, 0, 0)
  ELSE InRecord("ok", KeyValue(<<>>, <<>>, TRUE, expiresAt), next.pos, next.op)

ExpirySeconds(f, e) ==
  IF e.err THEN InRecord("err", NoPair, 0, 0)
  ELSE ExpiryOpcode(ReadOpcode(f, e.pos), UnixSeconds(LittleEndian(e.bytes)))

ExpiryMillis(f, e) ==
  IF e.err THEN InRecord("err", NoPair, 0, 0)
  ELSE ExpiryOpcode(ReadOpcode(f, e.pos), UnixMilli(LittleEndian(e.bytes)))

\* the expiry of a record, when opcode op announces one, and the opcode read
\* after it
ReadExpiry(f, pos, op) ==
  IF op = ExpireTime THEN ExpirySeconds(f, ReadBytes(f, pos, 4))
  ELSE IF op = ExpireTimeMs THEN ExpiryMillis(f, ReadBytes(f, pos, 8))
  ELSE InRecord("ok", NoPair, pos, op)

NextOpcode(next, pair) ==
  IF next.err THEN InRecord("err", pair, 0, 0)
  ELSE InRecord("ok", pair, next.pos, next.op)

ValueOf(f, v, pair) ==
  IF v.st # "ok" THEN InRecord(v.st, pair, 0, 0)
  ELSE NextOpcode(ReadOpcode(f, v.pos), [pair EXCEPT !.Value = v.str])

KeyOf(f, k, pair) ==
  IF k.st # "ok" THEN InRecord(k.st, pair, 0, 0)
  ELSE ValueOf(f, readString(f, k.pos), [pair EXCEPT !.Key = k.str])

\* the type byte op, the key and the value of a record, and the opcode read
\* after them
ReadKeyValue(f, pos, op, pair) ==
  IF op # TypeString THEN InRecord("err", pair, 0, 0)
  ELSE KeyOf(f, readString(f, pos), pair)

\* the loop over the records of a database, entered with opcode op already
\* read; when it ends, pos is the offset after the opcode that ended it
RECURSIVE ReadPairs(_, _, _, _)
RECURSIVE PairsAfterExpiry(_, _, _)
RECURSIVE PairsAfterRecord(_, _, _)
PairsAfterRecord(f, r, pairs) ==
  IF r.st # "ok" THEN ReadResult(r.st, <<>>)
  ELSE ReadPairs(f, r.pos, r.op, Append(pairs, r.pair))

PairsAfterExpiry(f, e, pairs) ==
  IF e.st # "ok" THEN ReadResult(e.st, <<>>)
  ELSE PairsAfterRecord(f, ReadKeyValue(f, e.pos, e.op, e.pair), pairs)

ReadPairs(f, pos, op, pairs) ==
  IF op = DatabaseStart \/ op = EOF THEN [st |-> "ok", pairs |-> pairs, pos |-> pos]
  ELSE PairsAfterExpiry(f, ReadExpiry(f, pos, op), pairs)

\* the DatabaseStart case of the top-level switch
ResizeOpcode(f, next, pairs) ==
  IF next.err THEN ReadResult("err", <<>>)
  ELSE ReadPairs(f, next.pos, next.op, pairs)

ResizeSecond(f, b, pairs) ==
  IF b.err THEN ReadResult("err", <<>>)
  ELSE ResizeOpcode(f, ReadOpcode(f, b.pos), pairs)

ResizeFirst(f, a, pairs) ==
  IF a.err THEN ReadResult("err", <<>>)
  ELSE ResizeSecond(f, readLength(f, a.pos), pairs)

DatabaseOpcode(f, o, pairs) ==
  IF o.err THEN ReadResult("err", <<>>)
  ELSE IF o.op = ResizeDB THEN ResizeFirst(f, readLength(f, o.pos), pairs)
  ELSE ReadPairs(f, o.pos, o.op, pairs)

DatabaseNumber(f, n, pairs) ==
  IF n.err THEN ReadResult("err", <<>>)
  ELSE DatabaseOpcode(f, ReadOpcode(f, n.pos), pairs)

ReadDatabase(f, pos, pairs) == DatabaseNumber(f, readLength(f, pos), pairs)

\* the top-level loop, n iterations done; st "hang" after MaxOpcodes of them
RECURSIVE ReadOpcodes(_, _, _, _)
RECURSIVE AfterMetadata(_, _, _, _)
RECURSIVE AfterDatabase(_, _, _)
RECURSIVE TopLevel(_, _, _, _)
AfterMetadata(f, m, pairs, n) ==
  IF m.err THEN ReadResult("err", <<>>) ELSE ReadOpcodes(f, m.pos, pairs, n + 1)

AfterDatabase(f, d, n) ==
  IF d.st # "ok" THEN ReadResult(d.st, <<>>) ELSE ReadOpcodes(f, d.pos, d.pairs, n + 1)

TopLevel(f, o, pairs, n) ==
  IF o.err THEN ReadResult("ok", pairs)
  ELSE IF o.op = EOF THEN ReadResult("ok", pairs)
  ELSE IF n >= MaxOpcodes THEN ReadResult("hang", <<>>)
  ELSE IF o.op = MetadataStart THEN AfterMetadata(f, skipMetadata(f, o.pos), pairs, n)
  ELSE IF o.op = DatabaseStart THEN AfterDatabase(f, ReadDatabase(f, o.pos, pairs), n)
  ELSE ReadResult("err", <<>>)

ReadOpcodes(f, pos, pairs, n) == TopLevel(f, ReadOpcode(f, pos), pairs, n)

\* Reader.Read on a file that exists
HeaderRead(f, h) ==
  IF h.err THEN ReadResult("err", <<>>)
  ELSE IF h.bytes # RDBHeader THEN ReadResult("err", <<>>)
  ELSE ReadOpcodes(f, Len(RDBHeader), <<>>, 0)

Read(f) == HeaderRead(f, ReadBytes(f, 0, Len(RDBHeader)))

(***************************************************************************)
(* Snapshot files.                                                        *)
(***************************************************************************)
Length(n) == <<n, 0, 0, 0>>
String(bytes) == Length(Len(bytes)) \o bytes
Database(index) == <<DatabaseStart>> \o Length(index)
Record(key, value) == <<TypeString>> \o String(key) \o String(value)
RecordMs(ms, key, value) ==
  <<ExpireTimeMs, ms, 0, 0, 0, 0, 0, 0, 0>> \o Record(key, value)
RecordSec(sec, key, value) == <<ExpireTime, sec, 0, 0, 0>> \o Record(key, value)

\* the file of each name; "missing" names no file
FileBytes(name) ==
  CASE name = "plain" ->
         RDBHeader \o Database(0) \o Record(<<97>>, <<120>>) \o <<EOF>>
    [] name = "ms" ->
         RDBHeader \o Database(0) \o RecordMs(1, <<97>>, <<121>>)
           \o Record(<<98>>, <<120>>) \o <<EOF>>
    [] name = "ms2" ->
         RDBHeader \o <<MetadataStart>> \o String(<<97>>) \o String(<<98>>)
           \o Database(0) \o <<ResizeDB>> \o Length(1) \o Length(1)
           \o RecordMs(2, <<98>>, <<121>>) \o <<EOF>>
    [] name = "twice" ->
         RDBHeader \o Database(0) \o Record(<<97>>, <<120>>)
           \o RecordMs(1, <<97>>, <<121>>) \o <<EOF>>
    [] name = "sec" ->
         RDBHeader \o Database(0) \o RecordSec(0, <<97>>, <<120>>)
           \o RecordSec(1, <<98>>, <<121>>) \o <<EOF>>
    [] name = "mixed" ->
         RDBHeader \o Database(0) \o RecordSec(1, <<98>>, <<121>>)
           \o RecordMs(2, <<97>>, <<120>>) \o Record(<<98>>, <<120>>) \o <<EOF>>
    [] name = "twodb" ->
         RDBHeader \o Database(0) \o Record(<<97>>, <<120>>)
           \o Database(1) \o Record(<<98>>, <<121>>) \o <<EOF>>
    [] name = "trailer" ->
         RDBHeader \o Database(0) \o Record(<<97>>, <<120>>) \o <<EOF>>
           \o <<1, 2, 3, 4, 5, 6, 7, 8>>
    [] name = "badop" ->
         RDBHeader \o <<7>> \o Database(0) \o Record(<<97>>, <<120>>) \o <<EOF>>
    [] name = "badtype" ->
         RDBHeader \o Database(0) \o Record(<<97>>, <<120>>)
           \o <<1>> \o String(<<98>>) \o String(<<121>>) \o <<EOF>>
    [] name = "cutfield" ->
         RDBHeader \o Database(0) \o Record(<<97>>, <<120>>)
           \o <<TypeString>> \o Length(1)
    [] name = "cut" ->
         RDBHeader \o Database(0) \o Record(<<97>>, <<120>>)
    [] name = "badheader" ->
         <<82, 69, 68, 73, 83, 48, 48, 48, 57>> \o Database(0)
           \o Record(<<97>>, <<120>>) \o <<EOF>>
    [] name = "neglen" ->
         RDBHeader \o Database(0) \o <<TypeString, 255, 255, 255, 255>>
    [] name = "negvalue" ->
         RDBHeader \o Database(0) \o Record(<<97>>, <<120>>)
           \o <<TypeString>> \o String(<<98>>) \o <<254, 255, 255, 255>> \o <<EOF>>

\* the files a load may find, and those of a server that goes on to serve
LoadFiles ==
  {"missing", "plain", "ms", "ms2", "twice", "sec", "mixed", "twodb", "trailer",
   "badop", "badtype", "cutfield", "cut", "badheader", "neglen", "negvalue"}
ServeFiles == {"missing", "ms"}

\* Reader.Read on the file of each name: a missing file gives no pairs and
\* no error
ReadTable ==
  [name \in LoadFiles |->
     IF name = "missing" THEN ReadResult("ok", <<>>) ELSE Read(FileBytes(name))]

(***************************************************************************)
(* What clients send.  A chunk is the bytes a client sends before the     *)
(* task's next decode; a stream that ends inside a frame has been closed  *)
(* by the client.                                                         *)
(***************************************************************************)
RECURSIVE Itoa(_)
Itoa(n) ==
  IF n >= 10 THEN Itoa(n \div 10) \o Itoa(n % 10)
  ELSE <<CHOOSE c \in DOMAIN DigitVal : DigitVal[c] = n>>

Bulk(s) == <<"$">> \o Itoa(Len(s)) \o CRLF \o s \o CRLF

RECURSIVE Bulks(_)
Bulks(args) == IF args = <<>> THEN <<>> ELSE Bulk(Head(args)) \o Bulks(Tail(args))

Frame(args) == <<"*">> \o Itoa(Len(args)) \o CRLF \o Bulks(args)

Conns == {"c1", "c2"}

KeyA == <<"a">>
KeyB == <<"b">>
ValX == <<"x">>
ValY == <<"y">>
CmdSet == <<"S", "E", "T">>
CmdGet == <<"G", "E", "T">>
CmdKeys == <<"K", "E", "Y", "S">>
CmdPing == <<"P", "I", "N", "G">>
CmdEcho == <<"e", "c", "h", "o">>
CmdConfig == <<"C", "O", "N", "F", "I", "G">>
ArgPX == <<"p", "x">>

\* frames that read and write the Store
StoreFrames ==
  { Frame(<<CmdSet, KeyA, ValX>>),
    Frame(<<CmdSet, KeyA, ValY, ArgPX, <<"1">>>>),
    Frame(<<CmdSet, KeyB, ValX>>),
    Frame(<<CmdGet, KeyA>>),
    Frame(<<CmdKeys, <<"*">>>>) }

\* the frames of a second client that writes and reads one key
PeerFrames ==
  { Frame(<<CmdSet, KeyA, ValX>>),
    Frame(<<CmdGet, KeyA>>) }

CmdFoo == <<"F", "O", "O">>
ParamDir == <<"d", "i", "r">>
ParamDbfilename == <<"D", "B", "f", "i", "l", "e", "n", "a", "m", "e">>

\* frames of every command, with and without a command error; two chunks
\* hold a second frame sent behind the first
ProtoFrames ==
  { Frame(<<CmdEcho, ValX>>),
    Frame(<<CmdEcho>>),
    Frame(<<CmdEcho>>) \o Frame(<<CmdSet, KeyB, ValX>>),
    Frame(<<CmdSet, KeyA>>),
    Frame(<<CmdSet, KeyA, ValX, ArgPX>>),
    Frame(<<CmdSet, KeyA, ValX, ArgPX, <<"z">>>>),
    Frame(<<CmdSet, KeyA, ValX>>),
    Frame(<<CmdGet>>),
    Frame(<<CmdGet, KeyA>>),
    Frame(<<CmdKeys>>),
    Frame(<<CmdKeys, KeyA>>),
    Frame(<<CmdKeys, <<"*">>>>),
    Frame(<<CmdConfig>>),
    Frame(<<CmdConfig, CmdGet, ParamDir>>),
    Frame(<<CmdConfig, CmdGet, ParamDbfilename>>),
    Frame(<<CmdConfig, CmdGet, KeyA>>),
    Frame(<<CmdFoo>>) \o Frame(<<CmdPing>>),
    Frame(<<>>) }

\* SET with every kind of PX argument that parses, and the reads of the key
PxFrames ==
  { Frame(<<CmdSet, KeyA, ValX>>),
    Frame(<<CmdSet, KeyA, ValY, ArgPX, <<"1">>>>),
    Frame(<<CmdSet, KeyA, ValY, ArgPX, <<"0">>>>),
    Frame(<<CmdSet, KeyA, ValY, ArgPX, <<"-", "1">>>>),
    Frame(<<CmdSet, KeyA, ValY, ArgPX, <<"1", "6">>>>),
    Frame(<<CmdGet, KeyA>>),
    Frame(<<CmdKeys, <<"*">>>>) }

\* malformed frames, and the stream that ends before a frame
BadFrames ==
  { <<>>,
    CmdPing \o CRLF,
    <<"*", "x">> \o CRLF,
    <<"*", "-", "1">> \o CRLF,
    <<"*", "1">> \o CRLF \o CmdPing \o CRLF,
    <<"*", "1">> \o CRLF \o <<"$", "x">> \o CRLF,
    <<"*", "1">> \o CRLF \o <<"$", "-", "1">> \o CRLF \o <<"x">>,
    <<"*", "1">> \o CRLF \o <<"$", "-", "3">> \o CRLF,
    <<"*", "1">> \o CRLF \o <<"$", "4">> \o CRLF \o <<"P", "I">> }

\* the chunks a client of each kind may send
Chunks(kind) ==
  CASE kind = "store" -> StoreFrames
    [] kind = "peer" -> PeerFrames
    [] kind = "proto" -> ProtoFrames \cup BadFrames
    [] kind = "px" -> PxFrames
    [] kind = "ping" -> {Frame(<<CmdPing>>)}

AllChunks == UNION {Chunks(kind) : kind \in {"store", "peer", "proto", "px", "ping"}}

\* the decoder's result on each of the chunks
DecodeTable == [chunk \in AllChunks |-> DecodeFrame(chunk)]

(***************************************************************************)
(* State.                                                                 *)
(***************************************************************************)
VARIABLES
  main,     \* the main goroutine: its place and the locals of the load
  now,      \* the wall clock, in ticks
  config,   \* Config: dir and dbfilename
  data,     \* store.data
  mu,       \* store.mu: w, the write lock is held; r, the number of read locks held
  dels,     \* the deleteKey goroutines spawned and waiting for the lock, per key
  delHeld,  \* the key of the deleteKey goroutine that holds the lock, if any
  conn,     \* the handleRequest task of each connection
  wire,     \* the kind of client on each connection
  crashed,  \* the process has ended by a panic
  lastSet   \* history: the last Store.Set on each key: the task that made it,
            \* the item it stored, the expiry instant it was asked for, if any,
            \* and whether it replaced an entry whose expiry was still to come

vars == <<main, now, config, data, mu, dels, delHeld, conn, wire, crashed, lastSet>>

EmptyMap == [k \in {} |-> 0]

NoTime == 0 - 1

NewConn ==
  [pc |-> "new",       \* new, read, wait, held, closed, panic
   raw |-> <<>>,        \* history: the chunk the decoder last read
   cmd |-> <<>>,        \* elements: the frame last decoded
   reply |-> NoReply,   \* the reply last written
   werr |-> FALSE,      \* err of the last conn.Write
   at |-> NoTime,       \* history: time.Now() of the last Store operation
   owed |-> 0,          \* history: frames of one or more elements decoded, less replies written
   silent |-> 0,        \* history: frames of zero elements decoded
   inbuf |-> <<>>]      \* bytes received and not yet decoded

\* a task that has been accepted and has not returned
Running(c) == conn[c].pc \in {"read", "wait", "held"}

Pending(k) == IF k \in DOMAIN dels THEN dels[k] ELSE 0

\* go s.deleteKey(key), for each key of S; a removal spawned while MaxDel
\* removals of its key wait is taken to run right after one of them, where
\* it finds the key absent
Spawn(S) ==
  [k \in DOMAIN dels \cup S |->
     IF k \in S /\ Pending(k) < MaxDel THEN Pending(k) + 1 ELSE Pending(k)]

\* the entry of key k in d has an expiry that has not passed at time t
ExpiryToCome(d, k, t) == k \in DOMAIN d /\ d[k].hasExpiry /\ d[k].expiresAt >= t

\* main before the load, with the file its flags name
NewMain(name) ==
  [pc |-> "start",     \* start, load, lock, set, listen, accept, exit, hang
   file |-> name,      \* the snapshot file at config.dir/config.dbfilename
   pairs |-> <<>>,     \* pairs
   idx |-> 1,          \* the place of the range loop in pairs
   px |-> 0,           \* px
   at |-> <<>>]        \* history: for each pair passed, the time time.Until sampled, or NoTime

InitWith(inputs, files) ==
  /\ main \in {NewMain(name) : name \in files}
  /\ now = 0
  /\ config = [dir |-> <<"/", "d">>, dbfilename |-> <<"f">>]
  /\ data = EmptyMap
  /\ mu = [w |-> FALSE, r |-> 0]
  /\ dels = EmptyMap
  /\ delHeld = <<>>
  /\ conn = [c \in Conns |-> NewConn]
  /\ wire = inputs
  /\ crashed = FALSE
  /\ lastSet = EmptyMap

(***************************************************************************)
(* main: the load of the snapshot, then the accept loop.                  *)
(***************************************************************************)
\* reader.Read()
MainRead ==
  /\ ~crashed
  /\ main.pc = "start"
  /\ LET r == ReadTable[main.file] IN
     /\ main' = [main EXCEPT !.pc = CASE r.st = "ok" -> "load"
                                      [] r.st = "err" -> "listen"
                                      [] r.st = "panic" -> "panic"
                                      [] r.st = "hang" -> "hang",
                             !.pairs = r.pairs]
     /\ crashed' = (r.st = "panic")
  /\ UNCHANGED <<now, config, data, mu, dels, delHeld, conn, wire, lastSet>>

\* one pass of the range loop up to store.Set: px from time.Until, and the
\* continue when px <= 0
LoadNext ==
  /\ ~crashed
  /\ main.pc = "load"
  /\ main.idx <= Len(main.pairs)
  /\ LET pair == main.pairs[main.idx]
         px == IF pair.HasExpiry THEN Milliseconds(Until(pair.ExpiresAt, now)) ELSE 0
         seen == Append(main.at, IF pair.HasExpiry THEN now ELSE NoTime)
     IN main' = IF pair.HasExpiry /\ px <= 0
                THEN [main EXCEPT !.idx = @ + 1, !.at = seen]
                ELSE [main EXCEPT !.pc = "lock", !.px = px, !.at = seen]
  /\ UNCHANGED <<now, config, data, mu, dels, delHeld, conn, wire, crashed, lastSet>>

\* s.mu.Lock() of store.Set
LoadLock ==
  /\ ~crashed
  /\ main.pc = "lock"
  /\ ~mu.w /\ mu.r = 0
  /\ mu' = [mu EXCEPT !.w = TRUE]
  /\ main' = [main EXCEPT !.pc = "set"]
  /\ UNCHANGED <<now, config, data, dels, delHeld, conn, wire, crashed, lastSet>>

\* store.Set under the lock and its unlock
LoadSet ==
  /\ ~crashed
  /\ main.pc = "set"
  /\ LET pair == main.pairs[main.idx] IN
     /\ data' = StoreSet(data, pair.Key, pair.Value, main.px, now)
     /\ lastSet' = MapPut(lastSet, pair.Key,
                          [by |-> "main", item |-> NewItem(pair.Value, main.px, now),
                           due |-> IF pair.HasExpiry THEN <<pair.ExpiresAt>> ELSE <<>>,
                           over |-> ExpiryToCome(data, pair.Key, now)])
  /\ mu' = [mu EXCEPT !.w = FALSE]
  /\ main' = [main EXCEPT !.pc = "load", !.idx = @ + 1, !.px = 0]
  /\ UNCHANGED <<now, config, dels, delHeld, conn, wire, crashed>>

\* the range loop ends
LoadDone ==
  /\ ~crashed
  /\ main.pc = "load"
  /\ main.idx > Len(main.pairs)
  /\ main' = [main EXCEPT !.pc = "listen"]
  /\ UNCHANGED <<now, config, data, mu, dels, delHeld, conn, wire, crashed, lastSet>>

\* net.Listen succeeds; the locals of the load are dead from here on
Listen ==
  /\ ~crashed
  /\ main.pc = "listen"
  /\ main' = [NewMain(main.file) EXCEPT !.pc = "accept"]
  /\ UNCHANGED <<now, config, data, mu, dels, delHeld, conn, wire, crashed, lastSet>>

\* net.Listen fails: os.Exit(1)
ListenFails ==
  /\ ~crashed
  /\ main.pc = "listen"
  /\ main' = [NewMain(main.file) EXCEPT !.pc = "exit"]
  /\ UNCHANGED <<now, config, data, mu, dels, delHeld, conn, wire, crashed, lastSet>>

\* an accept that does not wait for the load
AcceptEarly(c) ==
  /\ ~crashed
  /\ conn[c].pc = "new"
  /\ conn' = [conn EXCEPT ![c].pc = "read"]
  /\ UNCHANGED <<main, now, config, data, mu, dels, delHeld, wire, crashed, lastSet>>

\* l.Accept() returns a connection: go handleRequest(conn)
Accept(c) ==
  /\ ~crashed
  /\ main.pc = "accept"
  /\ conn[c].pc = "new"
  /\ conn' = [conn EXCEPT ![c].pc = "read"]
  /\ UNCHANGED <<main, now, config, data, mu, dels, delHeld, wire, crashed, lastSet>>

(***************************************************************************)
(* handleRequest.                                                         *)
(***************************************************************************)
\* the frame has PX as its 4th argument
HasPX(e) == Len(e) > 3 /\ ToUpper(e[4]) = <<"P", "X">>

\* the task after its write of a reply: ok tells whether the write succeeded
AfterWrite(t, h, reply, ok) ==
  IF h.checked /\ ~ok
  THEN [NewConn EXCEPT !.pc = "closed", !.werr = TRUE, !.owed = t.owed - 1,
                       !.silent = t.silent]
  ELSE [t EXCEPT !.pc = "read", !.reply = reply, !.werr = ~ok, !.owed = @ - 1]

\* the task as it starts an iteration on a chunk
Fresh(t, chunk) ==
  [t EXCEPT !.raw = chunk, !.cmd = <<>>, !.reply = NoReply, !.werr = FALSE,
            !.at = NoTime, !.inbuf = <<>>]

\* one iteration of the loop up to the Store: decode a frame; reply at once
\* when the command needs no Store access
Decode(c) ==
  /\ ~crashed
  /\ conn[c].pc = "read"
  /\ \E chunk \in (IF conn[c].inbuf = <<>> THEN Chunks(wire[c]) ELSE {conn[c].inbuf}) :
       LET d == IF chunk \in AllChunks THEN DecodeTable[chunk] ELSE DecodeFrame(chunk) IN
       \/ /\ d.st = "panic"
          /\ crashed' = TRUE
          /\ conn' = [conn EXCEPT ![c] = [Fresh(@, chunk) EXCEPT !.pc = "panic"]]
       \/ /\ d.st = "return"
          /\ conn' = [conn EXCEPT ![c] = [Fresh(@, chunk) EXCEPT !.pc = "closed"]]
          /\ UNCHANGED crashed
       \/ /\ d.st = "ok"
          /\ d.elements = <<>>
          /\ conn[c].silent < MaxSilent
          /\ conn' = [conn EXCEPT ![c] = [Fresh(@, chunk) EXCEPT !.silent = @ + 1,
                                                                 !.inbuf = d.rest]]
          /\ UNCHANGED crashed
       \/ /\ d.st = "ok"
          /\ d.elements # <<>>
          /\ LET h == Dispatch(d.elements, config)
                 t == [Fresh(conn[c], chunk) EXCEPT !.cmd = d.elements, !.owed = @ + 1,
                                                    !.inbuf = d.rest]
             IN IF h.act = "write"
                THEN IF h.writes = <<>>
                     THEN conn' = [conn EXCEPT ![c] = t]
                     ELSE \E ok \in BOOLEAN :
                            conn' = [conn EXCEPT ![c] = AfterWrite(t, h, h.writes[1], ok)]
                ELSE conn' = [conn EXCEPT ![c] = [t EXCEPT !.pc = "wait"]]
          /\ UNCHANGED crashed
  /\ UNCHANGED <<main, now, config, data, mu, dels, delHeld, wire, lastSet>>

\* a lock that a reader takes while a writer holds it
AcquireUnderWriter(c) ==
  /\ ~crashed
  /\ conn[c].pc = "wait"
  /\ LET h == Dispatch(conn[c].cmd, config) IN
     IF h.act = "set"
     THEN /\ ~mu.w /\ mu.r = 0
          /\ mu' = [mu EXCEPT !.w = TRUE]
     ELSE mu' = [mu EXCEPT !.r = @ + 1]
  /\ conn' = [conn EXCEPT ![c].pc = "held"]
  /\ UNCHANGED <<main, now, config, data, dels, delHeld, wire, crashed, lastSet>>

\* s.mu.Lock() of Store.Set, s.mu.RLock() of Store.Get and getAllKeys
Acquire(c) ==
  /\ ~crashed
  /\ conn[c].pc = "wait"
  /\ LET h == Dispatch(conn[c].cmd, config) IN
     IF h.act = "set"
     THEN /\ ~mu.w /\ mu.r = 0
          /\ mu' = [mu EXCEPT !.w = TRUE]
     ELSE /\ ~mu.w
          /\ mu' = [mu EXCEPT !.r = @ + 1]
  /\ conn' = [conn EXCEPT ![c].pc = "held"]
  /\ UNCHANGED <<main, now, config, data, dels, delHeld, wire, crashed, lastSet>>

\* Store.Set under the lock, its unlock, and the write of +OK
SetBody(c) ==
  /\ ~crashed
  /\ conn[c].pc = "held"
  /\ LET h == Dispatch(conn[c].cmd, config) IN
     /\ h.act = "set"
     /\ data' = StoreSet(data, h.key, h.value, h.px, now)
     /\ lastSet' = MapPut(lastSet, h.key,
                          [by |-> c, item |-> NewItem(h.value, h.px, now),
                           due |-> IF HasPX(conn[c].cmd)
                                   THEN <<now + h.px * TicksPerMs>> ELSE <<>>,
                           over |-> ExpiryToCome(data, h.key, now)])
     /\ mu' = [mu EXCEPT !.w = FALSE]
     /\ \E ok \in BOOLEAN :
          conn' = [conn EXCEPT ![c] =
                     AfterWrite([conn[c] EXCEPT !.at = now], h, SimpleReply("OK"), ok)]
  /\ UNCHANGED <<main, now, config, dels, delHeld, wire, crashed>>

\* Store.Get under the read lock, its unlock, and the write of the reply
GetBody(c) ==
  /\ ~crashed
  /\ conn[c].pc = "held"
  /\ LET h == Dispatch(conn[c].cmd, config)
         g == StoreGet(data, h.key, now)
     IN /\ h.act = "get"
        /\ dels' = IF g.spawn THEN Spawn({h.key}) ELSE dels
        /\ mu' = [mu EXCEPT !.r = @ - 1]
        /\ \E ok \in BOOLEAN :
             conn' = [conn EXCEPT ![c] =
                        AfterWrite([conn[c] EXCEPT !.at = now], h,
                                   IF g.exists THEN BulkReply(g.value) ELSE NullReply, ok)]
  /\ UNCHANGED <<main, now, config, data, delHeld, wire, crashed, lastSet>>

\* getAllKeys under the read lock, its unlock, and the write of the array
KeysBody(c) ==
  /\ ~crashed
  /\ conn[c].pc = "held"
  /\ LET h == Dispatch(conn[c].cmd, config) IN
     /\ h.act = "keys"
     /\ dels' = Spawn(DeadKeys(data, now))
     /\ mu' = [mu EXCEPT !.r = @ - 1]
     /\ \E keys \in Orders(LiveKeys(data, now)), ok \in BOOLEAN :
          conn' = [conn EXCEPT ![c] =
                     AfterWrite([conn[c] EXCEPT !.at = now], h, ArrayReply(keys), ok)]
  /\ UNCHANGED <<main, now, config, data, delHeld, wire, crashed, lastSet>>

(***************************************************************************)
(* Store.deleteKey, run by a detached goroutine.                          *)
(***************************************************************************)
\* s.mu.Lock()
DeleteLock(k) ==
  /\ ~crashed
  /\ Pending(k) > 0
  /\ ~mu.w /\ mu.r = 0
  /\ mu' = [mu EXCEPT !.w = TRUE]
  /\ dels' = [j \in {i \in DOMAIN dels : i # k \/ dels[i] > 1} |->
                IF j = k THEN dels[j] - 1 ELSE dels[j]]
  /\ delHeld' = <<k>>
  /\ UNCHANGED <<main, now, config, data, conn, wire, crashed, lastSet>>

\* delete(s.data, key) and the unlock
DeleteBody ==
  /\ ~crashed
  /\ delHeld # <<>>
  /\ data' = MapDelete(data, delHeld[1])
  /\ mu' = [mu EXCEPT !.w = FALSE]
  /\ delHeld' = <<>>
  /\ UNCHANGED <<main, now, config, dels, conn, wire, crashed, lastSet>>

\* the wall clock advances
Tick ==
  /\ ~crashed
  /\ main.pc \notin {"exit", "hang"}
  /\ now < MaxTime
  /\ now' = now + 1
  /\ UNCHANGED <<main, config, data, mu, dels, delHeld, conn, wire, crashed, lastSet>>

\* the steps of main up to the accept loop
Load ==
  \/ MainRead
  \/ LoadNext
  \/ LoadLock
  \/ LoadSet
  \/ LoadDone

Next ==
  \/ Load
  \/ Listen
  \/ ListenFails
  \/ \E c \in Conns : Accept(c)
  \/ \E c \in Conns : Decode(c)
  \/ \E c \in Conns : Acquire(c)
  \/ \E c \in Conns : SetBody(c)
  \/ \E c \in Conns : GetBody(c)
  \/ \E c \in Conns : KeysBody(c)
  \/ \E k \in DOMAIN dels : DeleteLock(k)
  \/ DeleteBody
  \/ Tick

Init == InitWith([c \in Conns |-> IF c = "c1" THEN "store" ELSE "peer"], ServeFiles)

Spec == Init /\ [][Next]_vars

\* the startup load alone, over every file
InitLoad == InitWith([c \in Conns |-> "peer"], LoadFiles)

NextLoad == Load \/ Tick

SpecLoad == InitLoad /\ [][NextLoad]_vars

\* one client that sends frames of every kind, beside one that sends PING
InitProto == InitWith([c \in Conns |-> IF c = "c1" THEN "proto" ELSE "ping"], {"ms"})

SpecProto == InitProto /\ [][Next]_vars

\* one client that sends SET with PX arguments, beside one that sends PING
InitPx == InitWith([c \in Conns |-> IF c = "c1" THEN "px" ELSE "ping"], ServeFiles)

SpecPx == InitPx /\ [][Next]_vars

(***************************************************************************)
(* Scheduling.  The goroutines that can run are run in the end, and       *)
(* sync.RWMutex lets no reader pass a writer that waits in Lock, so a     *)
(* writer that waits gets the lock in the end.  A removal is taken to     *)
(* wait in Lock from the time it is spawned.                              *)
(***************************************************************************)
\* a writer waits for the lock
WriterWaits ==
  \/ main.pc = "lock"
  \/ \E k \in DOMAIN dels : dels[k] > 0
  \/ \E c \in Conns : conn[c].pc = "wait" /\ Dispatch(conn[c].cmd, config).act = "set"

\* no reader takes the lock in this step while a writer waits
WriterFirst ==
  \A c \in Conns :
    ( /\ conn[c].pc = "wait" /\ conn'[c].pc = "held"
      /\ Dispatch(conn[c].cmd, config).act # "set" ) => ~WriterWaits

NextFair == Next /\ WriterFirst

Fairness ==
  /\ \A k \in {KeyA, KeyB} : SF_vars(DeleteLock(k))
  /\ WF_vars(DeleteBody)
  /\ \A c \in Conns :
       WF_vars(SetBody(c)) /\ WF_vars(GetBody(c)) /\ WF_vars(KeysBody(c))

\* the server of SpecProto under this scheduling
SpecProtoFair == InitProto /\ [][NextFair]_vars /\ Fairness

\* the server of Spec under this scheduling
SpecFair == Init /\ [][NextFair]_vars /\ Fairness

(***************************************************************************)
(* Properties.                                                            *)
(***************************************************************************)
\* the task holds the lock and is about to run the Store operation
Holds(c) == conn[c].pc = "held"

\* the command name of the frame the task is handling
Name(c) == ToUpper(conn[c].cmd[1])

\* this step runs the Store operation of c and writes its reply with success
Replied(c) == Holds(c) /\ conn'[c].pc = "read"

Range(q) == {q[i] : i \in DOMAIN q}

\* the entry of key k has an expiry instant before time t
PastExpiry(k, t) == k \in DOMAIN data /\ data[k].hasExpiry /\ data[k].expiresAt < t

\* the entry of key k has its expiry instant exactly at time t
AtExpiry(k, t) == k \in DOMAIN data /\ data[k].hasExpiry /\ data[k].expiresAt = t

\* C1: neither GET nor KEYS * returns an entry whose expiry instant is before
\* the time the operation sampled: GET of such a key replies null and KEYS *
\* omits it, whether or not the removal has run.
C1_NeverReturnsExpired ==
  [][\A c \in Conns :
       Replied(c) =>
         /\ Name(c) = CmdGet /\ PastExpiry(conn[c].cmd[2], conn'[c].at)
              => conn'[c].reply = NullReply
         /\ Name(c) = CmdKeys
              => \A k \in Range(conn'[c].reply.items) : ~PastExpiry(k, conn'[c].at)]_vars

\* a GET has replied null for a key whose expired entry is still in the
\* mapping, its removal spawned and not yet run
C1_Witness ==
  \E c \in Conns :
    /\ conn[c].pc = "read"
    /\ conn[c].cmd = <<CmdGet, KeyA>>
    /\ conn[c].reply = NullReply
    /\ PastExpiry(KeyA, conn[c].at)
    /\ Pending(KeyA) > 0

\* C2 (as claimed): a GET of k by the connection whose SET k v was the last
\* SET on k, before the PX duration of that SET has elapsed, replies v.
C2_SetThenGet ==
  [][\A c \in Conns :
       (Replied(c) /\ Name(c) = CmdGet) =>
         LET k == conn[c].cmd[2] IN
         ( /\ k \in DOMAIN lastSet
           /\ lastSet[k].by = c
           /\ ~lastSet[k].item.hasExpiry \/ conn'[c].at < lastSet[k].item.expiresAt )
         => conn'[c].reply = BulkReply(lastSet[k].item.value)]_vars

\* C3 (as claimed): at the instant expiresAt itself GET replies null and
\* KEYS * omits the key.
C3_ExpiredAtBoundary ==
  [][\A c \in Conns :
       Replied(c) =>
         /\ Name(c) = CmdGet /\ AtExpiry(conn[c].cmd[2], conn'[c].at)
              => conn'[c].reply = NullReply
         /\ Name(c) = CmdKeys
              => \A k \in Range(conn'[c].reply.items) : ~AtExpiry(k, conn'[c].at)]_vars

\* C3 (amended): at the instant expiresAt itself the key is still live: GET
\* replies its value and KEYS * lists it; a key with an expiry is treated as
\* expired exactly when the sampled time is after expiresAt.
C3_LiveAtBoundary ==
  [][\A c \in Conns :
       Replied(c) =>
         /\ Name(c) = CmdGet =>
              LET k == conn[c].cmd[2] IN
              /\ AtExpiry(k, conn'[c].at) => conn'[c].reply = BulkReply(data[k].value)
              /\ (k \in DOMAIN data /\ data[k].hasExpiry)
                   => (conn'[c].reply = NullReply <=> conn'[c].at > data[k].expiresAt)
         /\ Name(c) = CmdKeys =>
              \A k \in DOMAIN data :
                AtExpiry(k, conn'[c].at) => k \in Range(conn'[c].reply.items)]_vars

\* a GET sampled exactly the expiry instant of the entry and replied its value
C3_Witness ==
  \E c \in Conns :
    /\ conn[c].pc = "read"
    /\ conn[c].cmd = <<CmdGet, KeyA>>
    /\ AtExpiry(KeyA, conn[c].at)
    /\ conn[c].reply = BulkReply(data[KeyA].value)

\* C9: KEYS * lists exactly the keys of the mapping that are not expired at
\* the scan's time, each once, and the array count is their number.
C9_KeysExact ==
  [][\A c \in Conns :
       (Replied(c) /\ Name(c) = CmdKeys) =>
         LET r == conn'[c].reply
             live == {k \in DOMAIN data :
                        ~data[k].hasExpiry \/ data[k].expiresAt >= conn'[c].at}
         IN /\ r.kind = "array"
            /\ Range(r.items) = live
            /\ Len(r.items) = Cardinality(live)
            /\ r.n = Cardinality(live)]_vars

\* KEYS * has replied the two keys that were SET, with the count 2
C9_Witness ==
  \E c \in Conns :
    /\ conn[c].pc = "read"
    /\ conn[c].cmd = <<CmdKeys, <<"*">>>>
    /\ conn[c].reply.n = 2
    /\ Range(conn[c].reply.items) = {KeyA, KeyB}

\* this step is a pass of the loop of c that reads from pc "read"
Decodes(c) == conn[c].pc = "read" /\ conn'[c] # conn[c]

\* C4 (as claimed): every frame the decoder returns, of any element count,
\* has had its one reply written when the task is about to decode the next.
C4_OneReplyPerFrame ==
  \A c \in Conns :
    conn[c].pc = "read" => conn[c].owed = 0 /\ conn[c].silent = 0

\* C4 (amended): every decoded frame of one or more elements has exactly one
\* reply written before the task decodes the next frame; a frame of zero
\* elements gets no reply and the task goes on to the next frame.
C4_OneReplyPerNonEmptyFrame ==
  /\ [](\A c \in Conns :
          /\ conn[c].owed \in {0, 1}
          /\ conn[c].pc = "read" => conn[c].owed = 0
          /\ conn[c].pc \in {"wait", "held"} => conn[c].owed = 1)
  /\ [][\A c \in Conns :
          (Decodes(c) /\ conn'[c].silent # conn[c].silent) =>
            /\ conn'[c].pc = "read"
            /\ conn'[c].reply = NoReply
            /\ conn'[c].owed = conn[c].owed]_vars

\* a task has passed a frame of zero elements without a reply and has then
\* written the one reply of a later frame
C4_Witness ==
  \E c \in Conns :
    /\ conn[c].pc = "read"
    /\ conn[c].silent = 1
    /\ conn[c].cmd # <<>>
    /\ conn[c].reply # NoReply
    /\ conn[c].owed = 0

\* the command errors of the command table, for a frame of one or more elements
CommandError(e) ==
  LET name == ToUpper(e[1])
      n == Len(e)
  IN \/ name = ToUpper(CmdEcho) /\ n < 2
     \/ name = CmdSet /\ n < 3
     \/ name = CmdSet /\ n = 4 /\ ToUpper(e[4]) = ToUpper(ArgPX)
     \/ /\ name = CmdSet /\ n >= 5 /\ ToUpper(e[4]) = ToUpper(ArgPX)
        /\ \E i \in DOMAIN e[5] : e[5][i] \notin DOMAIN DigitVal \cup {"-", "+"}
     \/ name = CmdGet /\ n # 2
     \/ name = CmdKeys /\ n # 2
     \/ name = CmdKeys /\ n = 2 /\ e[2] # <<"*">>
     \/ name = CmdConfig /\ ~(n >= 3 /\ ToUpper(e[2]) = CmdGet)
     \/ name \notin {CmdPing, ToUpper(CmdEcho), CmdSet, CmdGet, CmdKeys, CmdConfig}

\* C5: a command error is answered with an -ERR reply, leaves the mapping as
\* it was and leaves the task in its loop, where a PING that follows and
\* whose reply is written gets +PONG.
C5_CommandErrorRecovers ==
  [][\A c \in Conns :
       /\ (Decodes(c) /\ conn'[c].cmd # <<>> /\ CommandError(conn'[c].cmd)) =>
            /\ conn'[c].reply.kind = "error"
            /\ conn'[c].pc = "read"
            /\ data' = data
       /\ ( /\ Decodes(c) /\ conn[c].cmd # <<>> /\ CommandError(conn[c].cmd)
            /\ conn'[c].cmd = <<CmdPing>> /\ ~conn'[c].werr ) =>
            /\ conn'[c].reply = SimpleReply("PONG")
            /\ conn'[c].pc = "read"]_vars

\* the PING that a client sent behind an unknown command has been answered
\* +PONG
C5_Witness ==
  \E c \in Conns :
    /\ wire[c] = "proto"
    /\ conn[c].pc = "read"
    /\ conn[c].raw = Frame(<<CmdPing>>)
    /\ conn[c].reply = SimpleReply("PONG")
    /\ ~conn[c].werr

\* C6 (as claimed): a task whose write of a reply failed decodes no further
\* frame.
C6_WriteFailureEnds ==
  [][\A c \in Conns :
       conn[c].werr => (conn'[c] = conn[c] \/ conn'[c].cmd = <<>>)]_vars

\* the malformed frames of the claim
Malformed == BadFrames \ {<<>>}

\* C7 (as claimed): on a malformed frame the task ends with no reply and no
\* change of the mapping, and the process goes on serving.
C7_MalformedFrameConfined ==
  [][\A c \in Conns :
       (Decodes(c) /\ conn'[c].raw \in Malformed) =>
         /\ conn'[c].pc = "closed"
         /\ conn'[c].reply = NoReply
         /\ data' = data
         /\ ~crashed']_vars

\* C8 (as claimed): SET with PX n, for every n that parses, stores an entry
\* whose expiry is the time of the write plus n milliseconds, and GET of the
\* key replies null once that instant has passed; SET with no PX stores an
\* entry with no expiry, and GET of the key replies the value until the key
\* is set again.
C8_StoredExpiry ==
  [][\A c \in Conns :
       /\ (Holds(c) /\ Name(c) = CmdSet /\ conn'[c] # conn[c]) =>
            LET e == conn[c].cmd
                item == data'[e[2]]
            IN /\ item.value = e[3]
               /\ IF Len(e) >= 5 /\ ToUpper(e[4]) = ToUpper(ArgPX)
                  THEN /\ item.hasExpiry
                       /\ item.expiresAt = now + Atoi(e[5]).val * TicksPerMs
                  ELSE ~item.hasExpiry
       /\ (Replied(c) /\ Name(c) = CmdGet) =>
            LET k == conn[c].cmd[2] IN
            (k \in DOMAIN lastSet /\ lastSet[k].by \in Conns) =>
              IF lastSet[k].due = <<>>
              THEN conn'[c].reply = BulkReply(lastSet[k].item.value)
              ELSE conn'[c].at > lastSet[k].due[1] => conn'[c].reply = NullReply]_vars

\* the load has ended and main is about to listen
Loaded == main.pc = "listen"

\* the time left to the expiry of record i when the loader tested it
Remaining(i) == main.pairs[i].ExpiresAt - main.at[i]

\* the record i of the file had an expiry before the time the loader tested it
PastRecord(i) == main.pairs[i].HasExpiry /\ Remaining(i) < 0

\* the record i had an expiry less than one millisecond after the time the
\* loader tested it, or before it
LapsedRecord(i) == main.pairs[i].HasExpiry /\ Remaining(i) < TicksPerMs

\* the whole milliseconds left to the expiry of record i, in ticks, of a time
\* left that is held to the largest Duration
WholeMsLeft(i) ==
  LET m == 2 ^ (DurBits - 1) - 1
      r == IF Remaining(i) > m THEN m ELSE Remaining(i)
  IN (r \div TicksPerMs) * TicksPerMs

\* the records of key k that have not lapsed
LiveRecords(k) ==
  {i \in DOMAIN main.pairs : main.pairs[i].Key = k /\ ~LapsedRecord(i)}

\* C10 (as claimed): after the load the key of every record whose expiry was
\* in the past is absent, and every other record is in the mapping with its
\* value and its absolute expiry instant.
C10_LoadKeepsInstants ==
  Loaded =>
    \A i \in DOMAIN main.pairs :
      LET p == main.pairs[i] IN
      IF PastRecord(i) THEN p.Key \notin DOMAIN data
      ELSE /\ p.Key \in DOMAIN data
           /\ data[p.Key].value = p.Value
           /\ data[p.Key].hasExpiry = p.HasExpiry
           /\ p.HasExpiry => data[p.Key].expiresAt = p.ExpiresAt

\* C10 (amended): after the load the mapping holds exactly the keys that have
\* a record which had no expiry or one whole millisecond or more left when
\* the loader tested it; each such key has the value of its last such
\* record, with no expiry when that record had none, and else with an
\* expiry that is the time of the write plus the whole milliseconds that
\* were left at the test.
C10_LoadWritesRelative ==
  Loaded =>
    /\ DOMAIN data = {main.pairs[i].Key :
                        i \in {j \in DOMAIN main.pairs : ~LapsedRecord(j)}}
    /\ \A k \in DOMAIN data :
         LET i == CHOOSE j \in LiveRecords(k) : \A h \in LiveRecords(k) : h <= j
             p == main.pairs[i]
         IN /\ data[k].value = p.Value
            /\ data[k].hasExpiry = p.HasExpiry
            /\ p.HasExpiry =>
                 \E t \in main.at[i]..now : data[k].expiresAt = t + WholeMsLeft(i)

\* the load of a file of two records has skipped the record whose expiry was
\* in the past and written the record whose expiry was to come
C10_Witness ==
  /\ Loaded
  /\ main.file = "sec"
  /\ PastRecord(1)
  /\ KeyA \notin DOMAIN data
  /\ KeyB \in DOMAIN data
  /\ data[KeyB].hasExpiry

\* Reader.Read has returned
ReadDone == main.pc # "start"

\* the files of the malformed kinds: a wrong header, an unsupported top-level
\* opcode, a type byte that is not 0, an end inside a field, a negative length
MalformedFiles == {"badheader", "badop", "badtype", "cutfield", "neglen", "negvalue"}

\* C11 (as claimed): the load of a malformed file writes no record to the
\* Store, and main goes on to listen.
C11_MalformedLoadAborts ==
  main.file \in MalformedFiles =>
    /\ data = EmptyMap
    /\ ~crashed
    /\ main.pc \in {"start", "listen"}

\* C13 (as claimed): the byte that ends the record loop is the opcode the
\* top-level loop handles next: the records of a second database are added
\* to the result, and an end-marker ends the read with the records read so
\* far, whatever follows it.
C13_LoopEndHandled ==
  ReadDone =>
    /\ main.file = "twodb" =>
         main.pairs = <<KeyValue(KeyA, ValX, FALSE, 0), KeyValue(KeyB, ValY, FALSE, 0)>>
    /\ main.file = "trailer" =>
         main.pairs = <<KeyValue(KeyA, ValX, FALSE, 0)>>

\* the instants of the expiry markers of the files, in ticks
AtMs(ms) == ms * TicksPerMs
AtSec(sec) == sec * 1000 * TicksPerMs

\* C14: an expiry marker gives its instant to the one record that follows
\* it, a record with no marker before it has no expiry, and the records are
\* returned in file order with the key and value of the file.
C14_ExpiryOfNextRecord ==
  ReadDone =>
    /\ main.file = "ms" =>
         main.pairs = <<KeyValue(KeyA, ValY, TRUE, AtMs(1)), KeyValue(KeyB, ValX, FALSE, 0)>>
    /\ main.file = "sec" =>
         main.pairs = <<KeyValue(KeyA, ValX, TRUE, AtSec(0)),
                        KeyValue(KeyB, ValY, TRUE, AtSec(1))>>
    /\ main.file = "twice" =>
         main.pairs = <<KeyValue(KeyA, ValX, FALSE, 0), KeyValue(KeyA, ValY, TRUE, AtMs(1))>>
    /\ main.file = "mixed" =>
         main.pairs = <<KeyValue(KeyB, ValY, TRUE, AtSec(1)),
                        KeyValue(KeyA, ValX, TRUE, AtMs(2)),
                        KeyValue(KeyB, ValX, FALSE, 0)>>
    /\ main.file = "ms2" => main.pairs = <<KeyValue(KeyB, ValY, TRUE, AtMs(2))>>
    /\ main.file = "plain" => main.pairs = <<KeyValue(KeyA, ValX, FALSE, 0)>>

\* the reader has returned the three records of a file in which a seconds
\* marker, a milliseconds marker and no marker come before them
C14_Witness ==
  /\ main.file = "mixed"
  /\ main.pc = "load"
  /\ Len(main.pairs) = 3
  /\ main.pairs[2].HasExpiry
  /\ ~main.pairs[3].HasExpiry

\* the frame is CONFIG GET with a parameter
IsConfigGet(e) ==
  /\ Len(e) >= 3
  /\ ToUpper(e[1]) = CmdConfig
  /\ ToUpper(e[2]) = CmdGet

\* the parameter names, in upper case
NameDir == <<"D", "I", "R">>
NameDbfilename == <<"D", "B", "F", "I", "L", "E", "N", "A", "M", "E">>

\* C12 (as claimed): CONFIG GET p replies the array of p and the directory
\* when p is dir, the filename when p is dbfilename and the empty string for
\* any other p, and no step changes the configuration.
C12_ConfigGetExactName ==
  [][/\ config' = config
     /\ \A c \in Conns :
          (Decodes(c) /\ conn'[c].cmd # <<>> /\ IsConfigGet(conn'[c].cmd)) =>
            LET param == conn'[c].cmd[3] IN
            conn'[c].reply =
              ArrayReply(<<param,
                           IF param = <<"d", "i", "r">> THEN config.dir
                           ELSE IF param = <<"d", "b", "f", "i", "l", "e", "n", "a", "m", "e">>
                           THEN config.dbfilename
                           ELSE <<>>>>)]_vars

\* C12 (amended): CONFIG GET p replies the array of p, as it was sent, and
\* the directory when p is dir in any mix of cases, the filename when p is
\* dbfilename in any mix of cases and the empty string for any other p, and
\* no step changes the configuration.
C12_ConfigGetAnyCase ==
  [][/\ config' = config
     /\ \A c \in Conns :
          (Decodes(c) /\ conn'[c].cmd # <<>> /\ IsConfigGet(conn'[c].cmd)) =>
            LET param == conn'[c].cmd[3] IN
            conn'[c].reply =
              ArrayReply(<<param,
                           IF ToUpper(param) = NameDir THEN config.dir
                           ELSE IF ToUpper(param) = NameDbfilename THEN config.dbfilename
                           ELSE <<>>>>)]_vars

\* CONFIG GET DBfilename has been answered with the name as it was sent and
\* the configured filename
C12_Witness ==
  \E c \in Conns :
    /\ conn[c].pc = "read"
    /\ conn[c].cmd = <<CmdConfig, CmdGet, ParamDbfilename>>
    /\ conn[c].reply = ArrayReply(<<ParamDbfilename, config.dbfilename>>)
    /\ config.dbfilename # <<>>

\* this step is the Store.Set of the SET that c is handling
Sets(c) == Holds(c) /\ Name(c) = CmdSet /\ conn'[c] # conn[c]

\* C15 (as claimed): SET k v2 with no PX on a key whose entry has an expiry
\* still to come leaves the entry with v2 and no expiry, and GET k replies v2
\* from then on while no one writes k; SET k v2 PX n with n > 0 on a key
\* with no expiry leaves an entry that expires n milliseconds after the
\* write.
C15_SetReplacesEntry ==
  [][\A c \in Conns :
       /\ Sets(c) =>
            LET e == conn[c].cmd
                k == e[2]
            IN /\ (~HasPX(e) /\ ExpiryToCome(data, k, now)) =>
                    data'[k] = StoreItem(e[3], FALSE, 0)
               /\ ( /\ Len(e) >= 5 /\ HasPX(e) /\ Atoi(e[5]).val > 0
                    /\ k \in DOMAIN data /\ ~data[k].hasExpiry ) =>
                    data'[k] = StoreItem(e[3], TRUE, now + Atoi(e[5]).val * TicksPerMs)
       /\ (Replied(c) /\ Name(c) = CmdGet) =>
            LET k == conn[c].cmd[2] IN
            ( /\ k \in DOMAIN lastSet
              /\ lastSet[k].by \in Conns
              /\ lastSet[k].due = <<>>
              /\ lastSet[k].over ) =>
              conn'[c].reply = BulkReply(lastSet[k].item.value)]_vars

\* C16: a connection is accepted, and so a command dispatched, only after the
\* load has ended: the loader writes while no connection has been accepted,
\* and main does not leave the accept loop for the load.
C16_LoadBeforeAccept ==
  /\ [](\A c \in Conns : conn[c].pc # "new" => main.pc = "accept")
  /\ [][/\ main.pc = "set" /\ main' # main =>
             /\ \A c \in Conns : conn[c].pc = "new"
             /\ dels = EmptyMap /\ delHeld = <<>>
        /\ main.pc = "accept" => main'.pc = "accept"
        /\ lastSet' # lastSet /\ main' = main =>
             \E c \in Conns : Sets(c)]_vars

\* a connection has had a command answered in a run whose load wrote a key
C16_Witness ==
  /\ \E k \in DOMAIN lastSet : lastSet[k].by = "main"
  /\ \E c \in Conns : conn[c].pc = "read" /\ conn[c].cmd # <<>>

\* the tasks that hold the lock as writers and as readers
WriterConns == {c \in Conns : Holds(c) /\ Name(c) = CmdSet}
ReaderConns == {c \in Conns : Holds(c) /\ Name(c) \in {CmdGet, CmdKeys}}
Writers ==
  Cardinality(WriterConns) + (IF main.pc = "set" THEN 1 ELSE 0)
    + (IF delHeld # <<>> THEN 1 ELSE 0)

\* some task waits for the lock
SomeWaits ==
  \/ \E c \in Conns : conn[c].pc = "wait"
  \/ \E k \in DOMAIN dels : dels[k] > 0
  \/ main.pc = "lock"

\* C18: the lock is held by no task, by readers and no writer, or by one
\* writer and no reader; the mapping changes only in a step of the one
\* writer; and while the process runs, whenever a task waits for the lock,
\* the lock is free or a task that holds it can go on to release it.
C18_LockDiscipline ==
  /\ [](/\ Writers <= 1
        /\ mu.w <=> Writers = 1
        /\ mu.r = Cardinality(ReaderConns)
        /\ ~(mu.w /\ mu.r > 0)
        /\ (SomeWaits /\ ~crashed) =>
             \/ ~mu.w /\ mu.r = 0
             \/ ENABLED (\/ \E c \in Conns : SetBody(c) \/ GetBody(c) \/ KeysBody(c)
                         \/ DeleteBody
                         \/ LoadSet))
  /\ [][data' # data => (mu.w /\ mu.r = 0 /\ ~mu'.w)]_vars

\* two readers hold the lock at once while a removal waits for it
C18_Witness ==
  /\ mu.r = 2
  /\ ~mu.w
  /\ \E k \in DOMAIN dels : dels[k] > 0

\* C17 (as claimed): a key leaves the mapping only in the step of a removal
\* that a GET or KEYS spawned for that key, a removal of an absent key
\* changes nothing, and every removal that was spawned gets the lock and
\* runs in the end.
C17_LazyRemovalRuns ==
  /\ [][/\ \A k \in DOMAIN data :
             k \notin DOMAIN data' => (delHeld = <<k>> /\ delHeld' = <<>>)
        /\ \A k \in DOMAIN dels' :
             Pending(k) < dels'[k] =>
               \E c \in Conns : Holds(c) /\ Name(c) \in {CmdGet, CmdKeys}
                                  /\ conn'[c] # conn[c]
                                  /\ IsExpired(data[k], now)
        /\ (delHeld # <<>> /\ delHeld' = <<>> /\ delHeld[1] \notin DOMAIN data) =>
             data' = data]_vars
  /\ \A k \in {KeyA, KeyB} : (Pending(k) > 0) ~> (delHeld = <<k>>)
  /\ (delHeld # <<>>) ~> (delHeld = <<>>)

====
